---- MODULE Spec2Model ----
(***************************************************************************)
(* newsb-dl: podcast downloader for the Newsboat / Newsbeuter queue.       *)
(* Model of src/newsb-dl.go: main, readUrls, downloadAll, downloadByHost,  *)
(* saveAudio and the files they touch (the queue file, the download        *)
(* directory).                                                             *)
(***************************************************************************)
EXTENDS Integers, Sequences, FiniteSets, TLC

\* ------------------------------------------------------------------ bounds
\* Longest queue file (in lines) that Init enumerates.
MaxLines == 2
\* Longest list of urls that downloadAll is called with on its own.
MaxUrls == 3
\* Longest queue file (in lines) of the runs that stop where downloadAll is
\* called.
MaxScan == 3

\* ------------------------------------------------------------- vocabulary
None == "none"
SP == " "

\* URL tokens that occur in queue files, with what url.Parse makes of them.
\* a1, a2 share a host; a1, b1 share the last path segment.
Tokens == {"a1", "a2", "b1"}

\* url.Parse: the URL, or an error for a token that is no URL ("%zz").
urlParse(tok) ==
    CASE tok = "a1" -> [err |-> FALSE, str |-> "a1", Host |-> "hostA", Path |-> "/x"]
      [] tok = "a2" -> [err |-> FALSE, str |-> "a2", Host |-> "hostA", Path |-> "/y"]
      [] tok = "b1" -> [err |-> FALSE, str |-> "b1", Host |-> "hostB", Path |-> "/pod/x"]
      [] OTHER -> [err |-> TRUE, str |-> "", Host |-> "", Path |-> ""]

URLs == {urlParse(t) : t \in Tokens}
Hosts == {u.Host : u \in URLs}

\* (*url.URL).String()
urlString(u) == u.str

\* filepath.Base of the URL path
Base(path) ==
    CASE path = "/x" -> "x"
      [] path = "/y" -> "y"
      [] path = "/pod/x" -> "x"

\* A file path inside the download directory: <<base name, suffix>>
savePath(u) == <<Base(u.Path), "">>
PartOf(path) == <<path[1], path[2] \o ".part">>
Paths == {<<b, s>> : b \in {"x", "y"}, s \in {"", ".part"}}

\* A line of the queue file is a sequence of characters; a whole word stands
\* for the run of non-space characters it is made of.
QueueLines ==
    { <<>>,
      <<"%zz">>,
      <<"a1">>,
      <<SP, "a1", SP, "meta">>,
      <<"a2">>,
      <<"b1", SP>> }

RECURSIVE Tuples(_, _)
Tuples(S, n) ==
    IF n = 0 THEN {<<>>}
    ELSE {Append(t, x) : t \in Tuples(S, n - 1), x \in S}

QueueFiles == UNION {Tuples(QueueLines, n) : n \in 0..MaxLines}

\* More lines for the runs that stop where downloadAll is called: a line of
\* spaces only, and a later line that carries a1 with other text after it.
ScanLines == QueueLines \cup {<<SP, SP>>, <<"a1", SP, "other">>}

ScanFiles == UNION {Tuples(ScanLines, n) : n \in 0..MaxScan}

\* ---------------------------------------------------------------- strings
RECURSIVE TrimLeft(_)
TrimLeft(s) ==
    IF s # <<>> /\ Head(s) = SP THEN TrimLeft(Tail(s)) ELSE s

RECURSIVE TrimRight(_)
TrimRight(s) ==
    IF s # <<>> /\ s[Len(s)] = SP THEN TrimRight(SubSeq(s, 1, Len(s) - 1)) ELSE s

TrimSpace(s) == TrimRight(TrimLeft(s))

RECURSIVE Fields(_)
Fields(s) ==
    IF s = <<>> THEN <<>>
    ELSE IF Head(s) = SP THEN Fields(Tail(s))
    ELSE <<Head(s)>> \o Fields(Tail(s))

\* ------------------------------------------------------------------ state
VARIABLES
    queueFiles,   \* "newsboat" / "newsbeuter" queue path -> the file there
    dirExists,    \* the download directory exists
    dirents,      \* path in the download directory -> inode, or None
    inodes,       \* inode -> what the file holds
    pc,           \* position of main
    urls,         \* main: the list returned by readUrls
    queue,        \* main: the queue path returned by readUrls
    hosts,        \* downloadAll: host -> Downloads
    spawned,      \* downloadAll: hosts whose goroutine was started
    closer,       \* the wg.Wait / close goroutine: "none", "wait", "done"
    wg,           \* sync.WaitGroup counter
    closed,       \* the results channel was closed
    closeCount,   \* number of close(results) calls
    wpc,          \* host -> position of its downloadByHost goroutine
    widx,         \* host -> index in its list of the download in hand
    resp,         \* host -> r of the current iteration
    fd,           \* host -> inode of the open file audio, or None
    dl,           \* token -> Download fields startedAt, err
    now,          \* time.Now() as a logical clock
    failures,     \* main: failures
    n,            \* main: n
    received,     \* main: downloads taken from the results channel, in order
    output,       \* standard output: <<"report", n, total, url, ok>> per report
    exitCode,     \* -1 while running, else the exit status
    fetched,      \* history: tokens in the order httpGet was called
    bodyCloses,   \* history: token -> number of r.Body.Close() calls
    sendPanic,    \* history: a send hit the closed channel
    queue0,       \* history: the queue files as the run found them
    logFile       \* the records of ~/.config/newsb-dl/log

vars == <<queueFiles, dirExists, dirents, inodes, pc, urls, queue, hosts,
          spawned, closer, wg, closed, closeCount, wpc, widx, resp, fd, dl,
          now, failures, n, received, output, exitCode, fetched, bodyCloses,
          sendPanic, queue0, logFile>>

\* what no statement of the program writes
outside == <<queue0, logFile>>

fsVars == <<dirExists, dirents, inodes>>
mainVars == <<pc, urls, queue, failures, n, received, output, exitCode>>
schedVars == <<hosts, spawned, closer, wg, closed, closeCount>>
workerVars == <<wpc, widx, resp, fd, dl, now, fetched, bodyCloses, sendPanic>>

\* ------------------------------------------------------------ file system
\* What a file holds: nothing, the whole stream of a download, a part of it
NoContent == [of |-> None, whole |-> FALSE]
Whole(t) == [of |-> t, whole |-> TRUE]
Part(t) == [of |-> t, whole |-> FALSE]

DirEmpty(d) == \A p \in Paths : d[p] = None

\* syscall.Rmdir(downloadDir): removes the directory only when it is empty
Rmdir(exists, d) == IF exists /\ DirEmpty(d) THEN FALSE ELSE exists

\* ---------------------------------------------------------------- readUrls
\* (a scan loop that leaves the loop at a blank line)
RECURSIVE ScanQueueStopsAtBlank(_, _, _)
ScanQueueStopsAtBlank(lines, acc, urlset) ==
    IF lines = <<>> THEN [urls |-> acc, fatal |-> FALSE]
    ELSE
        LET line == TrimSpace(Head(lines)) IN
        IF line = <<>> THEN [urls |-> acc, fatal |-> FALSE]
        ELSE
            LET urlstr == Fields(line)[1] IN
            IF urlstr \in urlset THEN ScanQueueStopsAtBlank(Tail(lines), acc, urlset)
            ELSE
                LET u == urlParse(urlstr) IN
                IF u.err THEN [urls |-> acc, fatal |-> TRUE]
                ELSE ScanQueueStopsAtBlank(Tail(lines), Append(acc, u),
                                           urlset \cup {urlstr})

\* (a scan loop that passes over a token url.Parse rejects)
RECURSIVE ScanQueueSkipsBadUrl(_, _, _)
ScanQueueSkipsBadUrl(lines, acc, urlset) ==
    IF lines = <<>> THEN [urls |-> acc, fatal |-> FALSE]
    ELSE
        LET line == TrimSpace(Head(lines)) IN
        IF line = <<>> THEN ScanQueueSkipsBadUrl(Tail(lines), acc, urlset)
        ELSE
            LET urlstr == Fields(line)[1] IN
            IF urlstr \in urlset THEN ScanQueueSkipsBadUrl(Tail(lines), acc, urlset)
            ELSE
                LET u == urlParse(urlstr) IN
                IF u.err THEN ScanQueueSkipsBadUrl(Tail(lines), acc, urlset)
                ELSE ScanQueueSkipsBadUrl(Tail(lines), Append(acc, u),
                                          urlset \cup {urlstr})

\* The scan loop of readUrls over the lines not yet read: the urls gathered,
\* and whether url.Parse failed (fail(err) ends the process there).
RECURSIVE ScanQueue(_, _, _)
ScanQueue(lines, acc, urlset) ==
    IF lines = <<>> THEN [urls |-> acc, fatal |-> FALSE]
    ELSE
        LET line == TrimSpace(Head(lines)) IN
        IF line = <<>> THEN ScanQueue(Tail(lines), acc, urlset)
        ELSE
            LET urlstr == Fields(line)[1] IN
            IF urlstr \in urlset THEN ScanQueue(Tail(lines), acc, urlset)
            ELSE
                LET u == urlParse(urlstr) IN
                IF u.err THEN [urls |-> acc, fatal |-> TRUE]
                ELSE ScanQueue(Tail(lines), Append(acc, u), urlset \cup {urlstr})

\* ------------------------------------------------------------- downloadAll
\* (a key per url: every download gets a goroutine of its own)
GroupKeyPerUrl(u) == u.str

\* The key under which downloadAll files a url in its hosts map.
GroupKey(u) == u.Host

Keys == {GroupKey(u) : u \in URLs}

\* (a push at the front)
PushFront(d, x) == <<x>> \o d

\* (d *Downloads) Push(dl)
Push(d, x) == Append(d, x)

\* hosts after the grouping loop of downloadAll over list; a Download is
\* named by the string of its url.
RECURSIVE GroupByHost(_, _)
GroupByHost(list, acc) ==
    IF list = <<>> THEN acc
    ELSE
        LET k == GroupKey(Head(list))
            host == IF k \in DOMAIN acc THEN acc[k] ELSE <<>>
            pushed == Push(host, Head(list).str)
        IN GroupByHost(Tail(list),
                       [x \in DOMAIN acc \cup {k} |-> IF x = k THEN pushed ELSE acc[x]])

NoHosts == [k \in {} |-> <<>>]

\* --------------------------------------------------------------------- Init
NewDownload == [startedAt |-> 0, err |-> "nil"]

\* A queue path: no file there, or a file with its lines
Missing == [exists |-> FALSE, lines |-> <<>>]
File(lines) == [exists |-> TRUE, lines |-> lines]

InitQueueFiles ==
    {[newsboat |-> Missing, newsbeuter |-> Missing]}
    \cup {[newsboat |-> File(f), newsbeuter |-> Missing] : f \in QueueFiles}
    \cup {[newsboat |-> Missing, newsbeuter |-> File(f)] : f \in QueueFiles}

\* Everything but the queue files and the download directory, which the
\* surroundings provide.
InitProgram ==
    /\ hosts = NoHosts
    /\ spawned = {}
    /\ closer = "none"
    /\ wg = 0
    /\ closed = FALSE
    /\ closeCount = 0
    /\ wpc = [k \in Keys |-> "idle"]
    /\ widx = [k \in Keys |-> 1]
    /\ resp = [k \in Keys |-> None]
    /\ fd = [k \in Keys |-> None]
    /\ dl = [t \in Tokens |-> NewDownload]
    /\ now = 1
    /\ failures = <<>>
    /\ n = 1
    /\ received = <<>>
    /\ output = <<>>
    /\ exitCode = -1
    /\ fetched = <<>>
    /\ bodyCloses = [t \in Tokens |-> 0]
    /\ sendPanic = FALSE

\* The files of the download directory: none, or a file "x" of an earlier run
InitFiles(old) ==
    /\ dirents = [p \in Paths |-> IF old /\ p = <<"x", "">> THEN "old" ELSE None]
    /\ inodes = [i \in Tokens \cup {"old"} |->
                   IF old /\ i = "old" THEN Whole("old") ELSE NoContent]

\* The download directory is absent, or holds a file "x" of an earlier run.
InitFs ==
    \/ dirExists = FALSE /\ InitFiles(FALSE)
    \/ dirExists = TRUE /\ InitFiles(TRUE)

\* The log holds the record of an earlier run.
InitOutside ==
    /\ queue0 = queueFiles
    /\ logFile = <<[time |-> 0, ok |-> 1, url |-> "a1"]>>

Init ==
    /\ queueFiles \in InitQueueFiles
    /\ InitFs
    /\ pc = "mkdir"
    /\ urls = <<>>
    /\ queue = None
    /\ InitProgram
    /\ InitOutside

\* A run of main on any of the wider queue files
InitScanFiles ==
    {[newsboat |-> Missing, newsbeuter |-> Missing]}
    \cup {[newsboat |-> File(f), newsbeuter |-> Missing] : f \in ScanFiles}
    \cup {[newsboat |-> Missing, newsbeuter |-> File(f)] : f \in ScanFiles}

InitReadUrls ==
    /\ queueFiles \in InitScanFiles
    /\ InitFs
    /\ pc = "mkdir"
    /\ urls = <<>>
    /\ queue = None
    /\ InitProgram
    /\ InitOutside

\* Lists of distinct urls, as readUrls returns them
UrlLists ==
    {l \in UNION {Tuples(URLs, i) : i \in 0..MaxUrls} :
        \A i, j \in 1..Len(l) : i # j => l[i] # l[j]}

RECURSIVE LinesOf(_)
LinesOf(list) ==
    IF list = <<>> THEN <<>> ELSE <<<<Head(list).str>>>> \o LinesOf(Tail(list))

\* A call downloadAll(urls) on any list of distinct urls, ranged over as main
\* does, the download directory made.
InitDownloadAll ==
    /\ urls \in UrlLists
    /\ queueFiles = [newsboat |-> File(LinesOf(urls)), newsbeuter |-> Missing]
    /\ dirExists = TRUE
    /\ \E old \in BOOLEAN : InitFiles(old)
    /\ pc = "downloadAll"
    /\ queue = "newsboat"
    /\ InitProgram
    /\ InitOutside

Running == exitCode < 0

\* --------------------------------------------------------------------- main
\* fail(err) with err # nil: Rmdir(downloadDir), the error is printed,
\* os.Exit(1)
Fail(err) ==
    /\ dirExists' = Rmdir(dirExists, dirents)
    /\ output' = Append(output, <<"error", 0, 0, err, FALSE>>)
    /\ exitCode' = 1

\* mkdir(downloadDir)
MainMkdir ==
    /\ Running /\ pc = "mkdir"
    /\ \E ok \in BOOLEAN :
        IF ok
        THEN /\ dirExists' = TRUE
             /\ pc' = "readUrls"
             /\ UNCHANGED <<exitCode, output>>
        ELSE /\ Fail("mkdir")
             /\ UNCHANGED pc
    /\ UNCHANGED <<queueFiles, dirents, inodes, urls, queue, failures, n,
                   received>>
    /\ UNCHANGED <<schedVars, workerVars>>
    /\ UNCHANGED outside

\* urls, queue := readUrls(): the file cannot be opened at either path, a
\* token is no url, or the scanner reports an error: fail(err)
MainReadUrls ==
    /\ Running /\ pc = "readUrls"
    /\ LET path == IF queueFiles.newsboat.exists THEN "newsboat" ELSE "newsbeuter"
       IN
       IF ~queueFiles[path].exists
       THEN /\ Fail("open")
            /\ UNCHANGED <<pc, urls, queue>>
       ELSE LET r == ScanQueue(queueFiles[path].lines, <<>>, {}) IN
            \E readErr \in BOOLEAN :
            IF r.fatal \/ readErr
            THEN /\ Fail(IF r.fatal THEN "parse" ELSE "scan")
                 /\ UNCHANGED <<pc, urls, queue>>
            ELSE /\ urls' = r.urls
                 /\ queue' = path
                 /\ pc' = "check"
                 /\ UNCHANGED <<dirExists, exitCode, output>>
    /\ UNCHANGED <<queueFiles, dirents, inodes, failures, n, received>>
    /\ UNCHANGED <<schedVars, workerVars>>
    /\ UNCHANGED outside

\* (a test that never finds the list empty)
NothingQueuedNever(list) == Len(list) < 0

\* len(urls) == 0
NothingQueued(list) == Len(list) = 0

\* if len(urls) == 0 { "Nothing queued"; Rmdir; return }
MainNothingQueued ==
    /\ Running /\ pc = "check"
    /\ NothingQueued(urls)
    /\ output' = Append(output, <<"Nothing queued", 0, 0, None, TRUE>>)
    /\ dirExists' = Rmdir(dirExists, dirents)
    /\ exitCode' = 0
    /\ UNCHANGED <<queueFiles, dirents, inodes, pc, urls, queue, failures, n, received>>
    /\ UNCHANGED <<schedVars, workerVars>>
    /\ UNCHANGED outside

\* the lines "Queued: url" of main
RECURSIVE QueuedLines(_)
QueuedLines(list) ==
    IF list = <<>> THEN <<>>
    ELSE <<<<"Queued", 0, 0, urlString(Head(list)), TRUE>>>> \o QueuedLines(Tail(list))

\* the urls are printed, "Downloading to ...", and downloadAll(urls) is called
MainQueued ==
    /\ Running /\ pc = "check"
    /\ ~NothingQueued(urls)
    /\ output' = output \o QueuedLines(urls) \o <<<<"Downloading", 0, 0, None, TRUE>>>>
    /\ pc' = "downloadAll"
    /\ UNCHANGED <<fsVars, queueFiles, urls, queue, failures, n, received, exitCode>>
    /\ UNCHANGED <<schedVars, workerVars>>
    /\ UNCHANGED outside

\* downloadAll(urls), up to the grouping loop
DownloadAllGroup ==
    /\ Running /\ pc = "downloadAll"
    /\ hosts' = GroupByHost(urls, NoHosts)
    /\ pc' = "spawn"
    /\ UNCHANGED <<spawned, closer, wg, closed, closeCount>>
    /\ UNCHANGED <<fsVars, queueFiles, urls, queue, failures, n, received, output, exitCode>>
    /\ UNCHANGED workerVars
    /\ UNCHANGED outside

\* for _, list := range hosts { wg.Add(1); go downloadByHost(list, results, wg) }
\* (a Go map is ranged over in no particular order)
DownloadAllSpawn(k) ==
    /\ Running /\ pc = "spawn"
    /\ k \in DOMAIN hosts /\ k \notin spawned
    /\ wg' = wg + 1
    /\ spawned' = spawned \cup {k}
    /\ wpc' = [wpc EXCEPT ![k] = "loop"]
    /\ UNCHANGED <<hosts, closer, closed, closeCount>>
    /\ UNCHANGED <<fsVars, queueFiles, mainVars>>
    /\ UNCHANGED <<widx, resp, fd, dl, now, fetched, bodyCloses, sendPanic>>
    /\ UNCHANGED outside

\* go func() { wg.Wait(); close(results) }(); return results
DownloadAllReturn ==
    /\ Running /\ pc = "spawn"
    /\ spawned = DOMAIN hosts
    /\ closer' = "wait"
    /\ pc' = "range"
    /\ UNCHANGED <<hosts, spawned, wg, closed, closeCount>>
    /\ UNCHANGED <<fsVars, queueFiles, urls, queue, failures, n, received, output, exitCode>>
    /\ UNCHANGED workerVars
    /\ UNCHANGED outside

\* ------------------------------------------------------------ downloadByHost
\* (the list taken from its end)
CurBackwards(k) == hosts[k][Len(hosts[k]) + 1 - widx[k]]

\* The download the goroutine of key k has in hand.
Cur(k) == hosts[k][widx[k]]

\* (one goroutine at a time: the others are between two downloads)
WorkingAlone(k) ==
    /\ Running /\ k \in spawned
    /\ \A j \in spawned \ {k} : wpc[j] \in {"loop", "exit"}

\* goroutine k runs: it was started and the process has not ended
Working(k) == Running /\ k \in spawned

\* what httpGet returns: (nil, err), or (r, nil) with status 200 or another.
\* (client.Get gives a response together with an error only for a refused
\* redirect, its body closed already: that outcome is left to the client.)
FetchOutcomes == {"neterr", "status", "ok"}

\* (a close on the path of status 200 only)
CloseBodyOn200(r, t) ==
    IF r = "ok" THEN [bodyCloses EXCEPT ![t] = @ + 1] ELSE bodyCloses

\* if r != nil { r.Body.Close() }
CloseBody(r, t) ==
    IF r # None THEN [bodyCloses EXCEPT ![t] = @ + 1] ELSE bodyCloses

\* (a loop that gives up after its first element)
InRangeFirstOnly(i, list) == i <= Len(list) /\ i <= 1

\* for _, dl := range downloads: the list has an element at index i
InRange(i, list) == i <= Len(list)

\* loop head: the next download, dl.startedAt = time.Now(), httpGet is called
FetchStart(k) ==
    /\ Working(k) /\ wpc[k] = "loop"
    /\ InRange(widx[k], hosts[k])
    /\ dl' = [dl EXCEPT ![Cur(k)].startedAt = now]
    /\ now' = now + 1
    /\ fetched' = Append(fetched, Cur(k))
    /\ wpc' = [wpc EXCEPT ![k] = "fetching"]
    /\ UNCHANGED <<widx, resp, fd, bodyCloses, sendPanic>>
    /\ UNCHANGED <<fsVars, queueFiles, mainVars, schedVars>>
    /\ UNCHANGED outside

\* httpGet returns; the switch; for a failed fetch the body is closed and
\* the download is ready to be sent
FetchReturn(k) ==
    /\ Working(k) /\ wpc[k] = "fetching"
    /\ \E o \in FetchOutcomes :
        LET r == IF o = "neterr" THEN None ELSE o IN
        /\ resp' = [resp EXCEPT ![k] = r]
        /\ IF o = "ok"
           THEN /\ wpc' = [wpc EXCEPT ![k] = "create"]
                /\ UNCHANGED <<dl, bodyCloses>>
           ELSE /\ dl' = [dl EXCEPT ![Cur(k)].err =
                            IF o = "status" THEN "HTTP status" ELSE "get"]
                /\ bodyCloses' = CloseBody(r, Cur(k))
                /\ wpc' = [wpc EXCEPT ![k] = "send"]
    /\ UNCHANGED <<widx, fd, now, fetched, sendPanic>>
    /\ UNCHANGED <<fsVars, queueFiles, mainVars, schedVars>>
    /\ UNCHANGED outside

\* saveAudio returns err: audio.Close() (deferred), dl.err = err, the body is
\* closed, and the download is ready to be sent
SaveReturns(k, err) ==
    /\ dl' = [dl EXCEPT ![Cur(k)].err = err]
    /\ fd' = [fd EXCEPT ![k] = None]
    /\ bodyCloses' = CloseBody(resp[k], Cur(k))
    /\ wpc' = [wpc EXCEPT ![k] = "send"]

\* os.Create(name): the file is created, or truncated when it exists
Create(d, ino, path, new) ==
    IF d[path] = None
    THEN [dirents |-> [d EXCEPT ![path] = new],
          inodes |-> [ino EXCEPT ![new] = NoContent],
          file |-> new]
    ELSE [dirents |-> d,
          inodes |-> [ino EXCEPT ![d[path]] = NoContent],
          file |-> d[path]]

\* saveAudio: audio, err := os.Create(pathTmp)
SaveCreate(k) ==
    /\ Working(k) /\ wpc[k] = "create"
    /\ \E ok \in BOOLEAN :
        IF ok
        THEN LET c == Create(dirents, inodes,
                             PartOf(savePath(urlParse(Cur(k)))), Cur(k)) IN
             /\ dirents' = c.dirents
             /\ inodes' = c.inodes
             /\ fd' = [fd EXCEPT ![k] = c.file]
             /\ wpc' = [wpc EXCEPT ![k] = "copy"]
             /\ UNCHANGED <<dl, bodyCloses>>
        ELSE /\ dl' = [dl EXCEPT ![Cur(k)].err = "create"]
             /\ bodyCloses' = CloseBody(resp[k], Cur(k))
             /\ wpc' = [wpc EXCEPT ![k] = "send"]
             /\ UNCHANGED <<dirents, inodes, fd>>
    /\ UNCHANGED <<widx, resp, now, fetched, sendPanic>>
    /\ UNCHANGED <<dirExists, queueFiles, mainVars, schedVars>>
    /\ UNCHANGED outside

\* saveAudio: _, err = io.Copy(audio, data): the whole stream is written to
\* the open file, or the copy fails and leaves a part of it there
SaveCopy(k) ==
    /\ Working(k) /\ wpc[k] = "copy"
    /\ \E ok \in BOOLEAN :
        IF ok
        THEN /\ inodes' = [inodes EXCEPT ![fd[k]] = Whole(Cur(k))]
             /\ wpc' = [wpc EXCEPT ![k] = "rename"]
             /\ UNCHANGED <<dl, fd, bodyCloses>>
        ELSE /\ inodes' = [inodes EXCEPT ![fd[k]] = Part(Cur(k))]
             /\ SaveReturns(k, "copy")
    /\ UNCHANGED <<widx, resp, now, fetched, sendPanic>>
    /\ UNCHANGED <<dirExists, dirents, queueFiles, mainVars, schedVars>>
    /\ UNCHANGED outside

\* os.Rename(from, to): to is replaced when it exists
Rename(d, from, to) == [d EXCEPT ![to] = d[from], ![from] = None]

\* saveAudio: err = os.Rename(pathTmp, path); return err
SaveRename(k) ==
    /\ Working(k) /\ wpc[k] = "rename"
    /\ LET path == savePath(urlParse(Cur(k)))
           pathTmp == PartOf(path)
       IN \E ok \in BOOLEAN :
            IF ok /\ dirents[pathTmp] # None
            THEN /\ dirents' = Rename(dirents, pathTmp, path)
                 /\ SaveReturns(k, "nil")
            ELSE /\ SaveReturns(k, "rename")
                 /\ UNCHANGED dirents
    /\ UNCHANGED <<widx, resp, now, fetched, sendPanic>>
    /\ UNCHANGED <<dirExists, inodes, queueFiles, mainVars, schedVars>>
    /\ UNCHANGED outside

\* (the same element again: a retry)
AdvanceNot(i) == i

\* range: on to the next element of downloads
Advance(i) == i + 1

\* (a count from zero)
reportFromZero(d, num, total) == <<"report", num - 1, total, d, dl[d].err = "nil">>

\* report(dl, n, total)
report(d, num, total) == <<"report", num, total, d, dl[d].err = "nil">>

\* results <- dl in the goroutine of k meets the receive of main's range
\* loop (the channel has no buffer), and main runs the loop body; a send on
\* the closed channel panics
Send(k) ==
    /\ Working(k) /\ wpc[k] = "send"
    /\ IF closed
       THEN /\ sendPanic' = TRUE
            /\ exitCode' = 2
            /\ UNCHANGED <<received, failures, output, n, wpc, widx, resp>>
       ELSE /\ pc = "range"
            /\ received' = Append(received, Cur(k))
            /\ failures' = IF dl[Cur(k)].err # "nil"
                           THEN Append(failures, Cur(k)) ELSE failures
            /\ output' = Append(output, report(Cur(k), n, Len(urls)))
            /\ n' = n + 1
            /\ widx' = [widx EXCEPT ![k] = Advance(@)]
            /\ wpc' = [wpc EXCEPT ![k] = "loop"]
            /\ resp' = [resp EXCEPT ![k] = None]
            /\ UNCHANGED <<sendPanic, exitCode>>
    /\ UNCHANGED <<pc, urls, queue, fd, dl, now, fetched, bodyCloses>>
    /\ UNCHANGED <<fsVars, queueFiles, schedVars>>
    /\ UNCHANGED outside

\* (a Done that is left out)
DoneForgotten(counter) == counter

\* wg.Done()
Done(counter) == counter - 1

\* the loop is over: wg.Done()
WorkerDone(k) ==
    /\ Working(k) /\ wpc[k] = "loop"
    /\ ~InRange(widx[k], hosts[k])
    /\ wg' = Done(wg)
    /\ wpc' = [wpc EXCEPT ![k] = "exit"]
    /\ UNCHANGED <<hosts, spawned, closer, closed, closeCount>>
    /\ UNCHANGED <<widx, resp, fd, dl, now, fetched, bodyCloses, sendPanic>>
    /\ UNCHANGED <<fsVars, queueFiles, mainVars>>
    /\ UNCHANGED outside

\* (a wait that returns while one goroutine has yet to call Done)
WaitReturnsEarly(counter) == counter <= 1

\* wg.Wait() returns when the counter is zero
WaitReturns(counter) == counter = 0

\* the goroutine of downloadAll: wg.Wait(); close(results)
CloseResults ==
    /\ Running /\ closer = "wait"
    /\ WaitReturns(wg)
    /\ closed' = TRUE
    /\ closeCount' = closeCount + 1
    /\ closer' = "done"
    /\ UNCHANGED <<hosts, spawned, wg>>
    /\ UNCHANGED <<fsVars, queueFiles, mainVars, workerVars>>
    /\ UNCHANGED outside

\* ---------------------------------------------------------- main, the end
\* the range loop sees the channel closed
RangeEnds ==
    /\ Running /\ pc = "range"
    /\ closed
    /\ pc' = "rewrite"
    /\ UNCHANGED <<urls, queue, failures, n, received, output, exitCode>>
    /\ UNCHANGED <<fsVars, queueFiles, schedVars, workerVars>>
    /\ UNCHANGED outside

\* the lines written for list: fmt.Fprintln(f, dl.url) for each
RECURSIVE FailureLines(_)
FailureLines(list) ==
    IF list = <<>> THEN <<>>
    ELSE <<<<urlString(urlParse(Head(list)))>>>> \o FailureLines(Tail(list))

\* f, err := os.Create(queue); the failures are written; f.Close(); Rmdir
RewriteQueue ==
    /\ Running /\ pc = "rewrite"
    /\ \E o \in {"create fails", "close fails", "ok"} :
        /\ queueFiles' = IF o = "create fails" THEN queueFiles
                         ELSE [queueFiles EXCEPT ![queue] = File(FailureLines(failures))]
        /\ IF o = "ok"
           THEN /\ dirExists' = Rmdir(dirExists, dirents)
                /\ exitCode' = 0
                /\ UNCHANGED output
           ELSE Fail(o)
    /\ pc' = "return"
    /\ UNCHANGED <<dirents, inodes, urls, queue, failures, n, received>>
    /\ UNCHANGED <<schedVars, workerVars>>
    /\ UNCHANGED outside

\* downloadAll, its goroutines and the range loop that consumes its channel
NextDownloadAll ==
    \/ DownloadAllGroup
    \/ \E k \in Keys : DownloadAllSpawn(k)
    \/ DownloadAllReturn
    \/ \E k \in Keys : FetchStart(k)
    \/ \E k \in Keys : FetchReturn(k)
    \/ \E k \in Keys : SaveCreate(k)
    \/ \E k \in Keys : SaveCopy(k)
    \/ \E k \in Keys : SaveRename(k)
    \/ \E k \in Keys : Send(k)
    \/ \E k \in Keys : WorkerDone(k)
    \/ CloseResults
    \/ RangeEnds

\* main up to the call of downloadAll
NextQueue ==
    \/ MainMkdir
    \/ MainReadUrls
    \/ MainNothingQueued
    \/ MainQueued

Next ==
    \/ NextQueue
    \/ NextDownloadAll
    \/ RewriteQueue

Spec == Init /\ [][Next]_vars

\* main up to the call of downloadAll, on the wider queue files
SpecReadUrls == InitReadUrls /\ [][NextQueue]_vars

\* downloadAll on its own, for any list
SpecDownloadAll == InitDownloadAll /\ [][NextDownloadAll]_vars

\* The steps of the goroutine of key k alone
Worker(k) ==
    \/ FetchStart(k)
    \/ FetchReturn(k)
    \/ SaveCreate(k)
    \/ SaveCopy(k)
    \/ SaveRename(k)
    \/ WorkerDone(k)

\* The Go scheduler runs every goroutine that can run; every fetch and every
\* file operation returns; a goroutine blocked sending on the channel is
\* served by the receiver.
Fairness ==
    /\ WF_vars(DownloadAllGroup \/ DownloadAllReturn \/ RangeEnds)
    /\ \A k \in Keys : WF_vars(DownloadAllSpawn(k))
    /\ \A k \in Keys : WF_vars(Worker(k))
    /\ \A k \in Keys : WF_vars(Send(k))
    /\ WF_vars(CloseResults)

FairDownloadAll == SpecDownloadAll /\ Fairness

\* ================================================================= claims
HostOf(t) == urlParse(t).Host

\* The downloads between the start of their fetch and their push
InFlight ==
    {t \in Tokens : \E k \in spawned :
        /\ wpc[k] \in {"fetching", "create", "copy", "rename", "send"}
        /\ Cur(k) = t}

\* The elements of seq that are of host h, in the order of seq
OfHost(seq, h) == SelectSeq(seq, LAMBDA t : HostOf(t) = h)

IsPrefix(a, b) == Len(a) <= Len(b) /\ SubSeq(b, 1, Len(a)) = a

UrlTokens == [i \in 1..Len(urls) |-> urls[i].str]
UrlHosts == {urls[i].Host : i \in 1..Len(urls)}

Range(seq) == {seq[i] : i \in 1..Len(seq)}

\* C1: at every moment no two downloads of one host are in flight (between
\* the start of the fetch and the push onto the results channel).
C1_OneInFlightPerHost ==
    \A t1, t2 \in InFlight : HostOf(t1) = HostOf(t2) => t1 = t2

\* a second download of a host is in flight, the first one pushed, while a
\* download of another host is in flight too
C1_Witness ==
    /\ \E t \in InFlight : \E i \in 1..Len(received) :
          HostOf(received[i]) = HostOf(t)
    /\ Cardinality(InFlight) >= 2

\* C2: downloadAll starts one goroutine per host of the list (h in all once
\* it returns), and the fetches of a host are issued in the order of the list.
C2_WorkersAndFifo ==
    /\ spawned \subseteq UrlHosts
    /\ pc \in {"range", "rewrite", "return"} => spawned = UrlHosts
    /\ \A h \in Hosts : IsPrefix(OfHost(fetched, h), OfHost(UrlTokens, h))

\* two hosts, two goroutines, and both urls of one host fetched in turn
C2_Witness ==
    /\ Cardinality(spawned) = 2
    /\ \E h \in Hosts : Len(OfHost(fetched, h)) = 2
    /\ Len(fetched) = 3

\* C3: no entry is fetched twice; when the range loop is over every entry
\* was fetched once, whatever the outcomes; and no outcome of an item ends
\* the process: it runs as long as downloads are under way.
C3_EachFetchedOnce ==
    /\ \A i, j \in 1..Len(fetched) : i # j => fetched[i] # fetched[j]
    /\ Range(fetched) \subseteq Range(UrlTokens)
    /\ pc \in {"rewrite", "return"} => Range(fetched) = Range(UrlTokens)
    /\ pc \in {"downloadAll", "spawn", "range"} => Running

\* the loop is over, and a download failed before the next one of its host
\* was fetched, with success
C3_Witness ==
    /\ pc = "rewrite"
    /\ Len(fetched) = 2
    /\ HostOf(fetched[1]) = HostOf(fetched[2])
    /\ dl[fetched[1]].err # "nil"
    /\ dl[fetched[2]].err = "nil"

\* The channel is closed, every goroutine is over, and the range loop was
\* left with one Download per entry.
C4_Done ==
    /\ pc = "rewrite"
    /\ closed
    /\ closer = "done"
    /\ Len(received) = Len(urls)
    /\ Range(received) = Range(UrlTokens)
    /\ \A k \in DOMAIN hosts : wpc[k] = "exit"

\* C4: if every fetch and file write returns and scheduling is fair, every
\* downloadAll run, of the empty list too, ends: the channel is closed and the
\* range loop is left with one Download per entry, nothing blocked for ever.
C4_Terminates == <>C4_Done

\* the loop was left with three downloads of two hosts
C4_Witness == C4_Done /\ Len(received) = 3 /\ Cardinality(spawned) = 2

\* C5: the channel is closed at most once, and only when every goroutine
\* has pushed its last download and called Done; no send meets the closed
\* channel; the range loop ends with every Download received.
C5_CloseAfterAll ==
    /\ closeCount <= 1
    /\ closed <=> closeCount = 1
    /\ closed =>
         /\ spawned = DOMAIN hosts
         /\ \A k \in DOMAIN hosts : wpc[k] = "exit" /\ widx[k] = Len(hosts[k]) + 1
         /\ wg = 0
         /\ Len(received) = Len(urls)
    /\ ~sendPanic
    /\ pc \in {"rewrite", "return"} => closed /\ Len(received) = Len(urls)

\* the channel was closed after three downloads of two goroutines
C5_Witness == closed /\ Len(received) = 3 /\ Cardinality(spawned) = 2

\* The run is over with exit code 0 after downloads (not "Nothing queued")
RunCompleted == pc = "return" /\ exitCode = 0

Succeeded == {t \in Range(received) : dl[t].err = "nil"}

\* The first field of a line, None for a blank line
UrlToken(line) ==
    IF Fields(TrimSpace(line)) = <<>> THEN None ELSE Fields(TrimSpace(line))[1]

\* The rawLine of the entry of url token t: the first line that carries t
RawLine(t, lines) ==
    LET i == CHOOSE i \in 1..Len(lines) :
                 /\ UrlToken(lines[i]) = t
                 /\ \A j \in 1..(i - 1) : UrlToken(lines[j]) # t
    IN TrimSpace(lines[i])

RECURSIVE Trimmed(_)
Trimmed(lines) ==
    IF lines = <<>> THEN <<>> ELSE <<TrimSpace(Head(lines))>> \o Trimmed(Tail(lines))

\* The lines of the original queue that are not blank and are not the
\* rawLine of a successful Download, in their order
KeptLines ==
    LET orig == queue0[queue].lines
        done == {RawLine(t, orig) : t \in Succeeded}
    IN SelectSeq(Trimmed(orig), LAMBDA l : l # <<>> /\ l \notin done)

\* C6: after a run the queue file holds the lines of the original queue
\* file whose rawLine is not that of a successful Download, in their order.
C6_QueueKeepsFailedLines ==
    RunCompleted => queueFiles[queue].lines = KeptLines

LogRecord(t) ==
    [time |-> dl[t].startedAt, ok |-> IF dl[t].err = "nil" THEN 1 ELSE 0, url |-> t]

\* C7: after a run of N Downloads the log is its earlier content followed by
\* N records, one per Download, with start time, url and the flag 1 or 0.
C7_LogGainsRecords ==
    RunCompleted =>
        /\ Len(logFile) = 1 + Len(received)
        /\ logFile[1] = [time |-> 0, ok |-> 1, url |-> "a1"]
        /\ {logFile[i] : i \in 2..Len(logFile)} = {LogRecord(t) : t \in Range(received)}

\* The step of the download that created the file at p: its copy into the
\* temporary file it created, or its rename of it
OwnStep(p) ==
    \E k \in spawned :
        /\ wpc[k] \in {"copy", "rename"}
        /\ wpc'[k] # wpc[k]
        /\ dirents[p] = Cur(k)
        /\ fd[k] = Cur(k)
        /\ p = PartOf(savePath(urlParse(Cur(k))))

\* C8: no step overwrites, truncates or replaces a file that exists, but for
\* a download's own temporary file.
C8_NeverOverwrites ==
    [][\A p \in Paths :
          dirents[p] # None =>
              \/ dirents'[p] = dirents[p] /\ inodes'[dirents[p]] = inodes[dirents[p]]
              \/ OwnStep(p)]_vars

FinalPaths == {p \in Paths : p[2] = ""}

\* C9: a copy that failed leaves its part of the stream in a temporary file
\* only: no file at a final path holds a part of a stream.
C9_NoPartAtFinalPath ==
    \A p \in FinalPaths :
        dirents[p] # None /\ inodes[dirents[p]].of # None => inodes[dirents[p]].whole

\* The downloads whose iteration is past the close of the body
BodyDone ==
    Range(received) \cup {t \in Tokens : \E k \in spawned : wpc[k] = "send" /\ Cur(k) = t}

\* C10: a response body is closed once on every path of the iteration that
\* has a response, and never when the fetch gave none.
C10_BodyClosedOnce ==
    /\ \A t \in Tokens : bodyCloses[t] <= 1
    /\ \A k \in spawned :
          /\ wpc[k] = "send" => bodyCloses[Cur(k)] = IF resp[k] = None THEN 0 ELSE 1
          /\ wpc[k] \in {"fetching", "create", "copy", "rename"} => bodyCloses[Cur(k)] = 0
    /\ \A t \in Range(received) : bodyCloses[t] = IF dl[t].err = "get" THEN 0 ELSE 1

\* the three paths with a response were taken: status 200 and the file
\* written, status 200 and the copy failed, another status
C10_Witness ==
    \E t1, t2, t3 \in Range(received) :
        /\ dl[t1].err = "nil" /\ bodyCloses[t1] = 1
        /\ dl[t2].err = "copy" /\ bodyCloses[t2] = 1
        /\ dl[t3].err = "HTTP status" /\ bodyCloses[t3] = 1

\* The lines of the queue file that readUrls read, as the run found them
QueueRead == queue0[queue].lines

\* The url tokens of the lines that carry one, in the order of the lines
LineTokens(lines) ==
    SelectSeq([i \in 1..Len(lines) |-> UrlToken(lines[i])], LAMBDA t : t # None)

\* seq without the repeats of an element, each kept where it occurs first
RECURSIVE Distinct(_)
Distinct(seq) ==
    IF seq = <<>> THEN <<>>
    ELSE LET front == Distinct(SubSeq(seq, 1, Len(seq) - 1))
             x == seq[Len(seq)]
         IN IF x \in Range(front) THEN front ELSE Append(front, x)

\* The text of the line that an element of the returned list carries: a
\* *url.URL has the url, and nothing else of the line.
EntryText(u) == <<urlString(u)>>

\* C11: the list that readUrls returns has one entry per distinct url token
\* of the file, in the order of first occurrence, and each entry keeps the
\* text of the first line that carried its token.
C11_OneEntryPerToken ==
    pc = "check" =>
        /\ UrlTokens = Distinct(LineTokens(QueueRead))
        /\ \A i \in 1..Len(urls) :
              EntryText(urls[i]) = RawLine(urls[i].str, QueueRead)

\* The part of C11 about the urls alone
OneUrlPerToken == pc = "check" => UrlTokens = Distinct(LineTokens(QueueRead))

\* The queue file that readUrls opens, whether or not it hands it on
OpenedFile ==
    IF queue0["newsboat"].exists THEN queue0["newsboat"] ELSE queue0["newsbeuter"]

\* The error that fail printed when it ended the process, None if none did
Failure ==
    IF output # <<>> /\ output[Len(output)][1] = "error"
    THEN output[Len(output)][4] ELSE None

IsBlank(line) == TrimSpace(line) = <<>>

LogBefore == <<[time |-> 0, ok |-> 1, url |-> "a1"]>>

\* No worker was started, no fetch issued, and the queue files and the log
\* are as the run found them
NothingDone ==
    /\ hosts = NoHosts
    /\ spawned = {}
    /\ fetched = <<>>
    /\ \A k \in Keys : wpc[k] = "idle"
    /\ queueFiles = queue0
    /\ logFile = LogBefore

\* The queue file cannot be opened at either path, or a line of it carries
\* a token that is no url
FatalQueue ==
    \/ ~OpenedFile.exists
    \/ \E i \in 1..Len(OpenedFile.lines) :
          /\ ~IsBlank(OpenedFile.lines[i])
          /\ urlParse(UrlToken(OpenedFile.lines[i])).err

\* C13: when the queue cannot be opened at either path, or holds a token that
\* is no url, main gets no further than readUrls, which ends the process with
\* exit code 1: no worker is started, no fetch issued, and the queue file and
\* the log are left as they were.
C13_FatalBeforeAnyWork ==
    FatalQueue =>
        /\ pc \in {"mkdir", "readUrls"}
        /\ pc = "readUrls" /\ ~Running => exitCode = 1
        /\ NothingDone

\* the process has ended in readUrls at a token that is no url, in the line
\* after one whose url was good
C13_Witness ==
    /\ pc = "readUrls" /\ exitCode = 1
    /\ Failure = "parse"
    /\ Len(OpenedFile.lines) = 2
    /\ UrlToken(OpenedFile.lines[1]) = "a1"
    /\ UrlToken(OpenedFile.lines[2]) = "%zz"
    /\ NothingDone

\* C14: when readUrls returns no url, main prints "Nothing queued" and ends
\* with exit code 0, and gets no further: no worker is started, no fetch
\* issued, the queue file is not rewritten and the log not written.
C14_NothingQueuedEnds ==
    /\ Len(urls) = 0 /\ pc \notin {"mkdir", "readUrls"} =>
          /\ pc = "check"
          /\ NothingDone
    /\ pc = "check" /\ ~Running =>
          /\ Len(urls) = 0
          /\ exitCode = 0
          /\ output = <<<<"Nothing queued", 0, 0, None, TRUE>>>>
          /\ NothingDone

\* the run has ended on a queue file of two blank lines
C14_Witness ==
    /\ pc = "check" /\ exitCode = 0
    /\ Len(QueueRead) = 2
    /\ \A i \in 1..2 : IsBlank(QueueRead[i])
    /\ output = <<<<"Nothing queued", 0, 0, None, TRUE>>>>

\* The warning of a log that cannot be opened is on the output
LogWarning ==
    \E i \in 1..Len(output) : output[i][1] = "Could not open log path"

\* C15: logging does not end the run: a run that ends after its downloads
\* ends with exit code 0 and has either written its records to the log or,
\* the log not to be opened, printed a warning and written none.
C15_LogFailureWarns ==
    RunCompleted =>
        \/ /\ Len(logFile) = Len(LogBefore) + Len(received)
           /\ ~LogWarning
        \/ /\ LogWarning
           /\ logFile = LogBefore

\* The lines that report printed, in their order
Reports == SelectSeq(output, LAMBDA o : o[1] = "report")

\* C16: main receives every Download once and prints one line for it: the
\* k-th Download received is reported as k of N, N the number of urls that
\* readUrls returned, so that the numbers run 1..N without gap or repeat in
\* the order of arrival on the results channel.
C16_ReportedOnceInOrder ==
    /\ \A i, j \in 1..Len(received) : i # j => received[i] # received[j]
    /\ Range(received) \subseteq Range(UrlTokens)
    /\ Len(Reports) = Len(received)
    /\ \A k \in 1..Len(received) :
          Reports[k] = <<"report", k, Len(urls), received[k],
                         dl[received[k]].err = "nil">>
    /\ n = Len(received) + 1
    /\ pc \in {"rewrite", "return"} => Len(Reports) = Len(urls)

\* three Downloads were reported as 1, 2, 3 of 3, in an order of arrival
\* that is not that of the queue
C16_Witness ==
    /\ pc = "rewrite"
    /\ Len(Reports) = 3
    /\ Reports[3][2] = 3 /\ Reports[3][3] = 3
    /\ received # UrlTokens

\* This step is one of goroutine k, at a statement of its loop body before
\* the push of the Download t in its hand, which is of its own list
WritesOwnBeforePush(k, t) ==
    /\ wpc'[k] # wpc[k]
    /\ wpc[k] \in {"loop", "fetching", "create", "copy", "rename"}
    /\ InRange(widx[k], hosts[k])
    /\ Cur(k) = t
    /\ GroupKey(urlParse(t)) = k
    /\ t \notin Range(received)

\* No Download is in the lists of two goroutines, and main keeps (for the
\* rewrite of the queue) only Downloads that it has received
GroupsApart ==
    /\ spawned \subseteq DOMAIN hosts
    /\ \A k1, k2 \in DOMAIN hosts :
          k1 # k2 => Range(hosts[k1]) \cap Range(hosts[k2]) = {}
    /\ Range(failures) \subseteq Range(received)

\* C17: startedAt and err of a Download are written only by the goroutine of
\* its host, and only before that goroutine pushes it; once pushed it is
\* written no more; main reads the Downloads that it has received only; and
\* no list of a host is in the hands of two goroutines.
C17_WrittenByOwnerBeforePush ==
    /\ []GroupsApart
    /\ [][\A t \in Tokens :
            dl'[t] # dl[t] => \E k \in spawned : WritesOwnBeforePush(k, t)]_vars

\* a goroutine has pushed its first Download, written twice (startedAt and
\* err), and is at work on its second one while another goroutine is at work
C17_Witness ==
    \E k \in spawned :
        /\ wpc[k] = "copy" /\ widx[k] = 2
        /\ hosts[k][1] \in Range(received)
        /\ dl[hosts[k][1]].startedAt > 0
        /\ dl[hosts[k][1]].err # "nil"
        /\ \E j \in spawned : j # k /\ wpc[j] \in {"fetching", "create", "copy", "rename"}

\* Two urls of different hosts whose files have the same name
SameNameApart(t1, t2) ==
    /\ HostOf(t1) # HostOf(t2)
    /\ savePath(urlParse(t1)) = savePath(urlParse(t2))

\* The final paths whose file holds the whole stream of t
FinalFilesOf(t) ==
    {p \in FinalPaths : dirents[p] # None /\ inodes[dirents[p]] = Whole(t)}

\* The step changes the file at p (its name or what it holds), a file that a
\* download of this run created, and the step is not of its creator
ChangedByOther(p) ==
    /\ dirents[p] \in Tokens
    /\ \/ dirents'[p] # dirents[p]
       \/ inodes'[dirents[p]] # inodes[dirents[p]]
    /\ \E k \in spawned :
          /\ wpc'[k] # wpc[k]
          /\ wpc[k] \in {"create", "copy", "rename"}
          /\ Cur(k) # dirents[p]

\* C18: when the goroutines of two hosts save urls of the same file name,
\* two successful downloads end as two final files, each holding its own
\* stream, and neither goroutine overwrites, truncates or renames away a
\* temporary or final file of the other.
C18_SameNameKeptApart ==
    /\ [](\A t1, t2 \in Succeeded :
            SameNameApart(t1, t2) =>
                \E p1 \in FinalFilesOf(t1), p2 \in FinalFilesOf(t2) : p1 # p2)
    /\ [][\A p \in Paths : ~ChangedByOther(p)]_vars

\* C19: the goroutines of different hosts do not wait for each other: a
\* goroutine that was started can take its next step up to its push (its
\* first fetch among them) whatever the goroutines of the other hosts are
\* doing, so that one Download of every host can be in flight at a time.
C19_HostsDoNotWait ==
    \A k \in spawned :
        Running /\ wpc[k] \in {"loop", "fetching", "create", "copy", "rename"}
            => ENABLED Worker(k)

\* nothing was received yet and a Download of each of the two hosts of the
\* list is in flight, each the first of its host
C19_Witness ==
    /\ Cardinality(UrlHosts) = 2
    /\ Cardinality(InFlight) = 2
    /\ {HostOf(t) : t \in InFlight} = UrlHosts
    /\ Len(fetched) = 2
    /\ received = <<>>

\* The Downloads of host h whose fetch was started and that main has not
\* received yet
Unreceived(h) == {t \in Range(fetched) \ Range(received) : HostOf(t) = h}

\* C20: the results channel has no buffer: a goroutine starts the fetch of
\* its next Download only when main has received the one before, so a host
\* has at most one Download fetched and not yet received, and main receives
\* the Downloads of a host in the order of the queue.
C20_NextFetchAfterReceive ==
    \A h \in Hosts :
        /\ Cardinality(Unreceived(h)) <= 1
        /\ Len(OfHost(fetched, h)) <= Len(OfHost(received, h)) + 1
        /\ IsPrefix(OfHost(received, h), OfHost(fetched, h))
        /\ IsPrefix(OfHost(received, h), OfHost(UrlTokens, h))

\* main has received both Downloads of a host, one of another host between
\* them
C20_Witness ==
    /\ Len(received) = 3
    /\ HostOf(received[1]) = HostOf(received[3])
    /\ HostOf(received[2]) # HostOf(received[1])
    /\ pc = "range"

====
